---- MODULE Spec2Model ----
(***************************************************************************)
(* Model of the pointercrate demonlist core:                                *)
(*   - the demon position primitives of demon/mod.rs (max_position,         *)
(*     validate_position, shift_down) and the insert that uses them,        *)
(*   - the record submission pipeline of record/post.rs                     *)
(*     (Submission::normalize, NormalizedSubmission::validate,              *)
(*     ValidatedSubmission::create).                                        *)
(* Every SQL statement is one atomic step against the shared store.         *)
(***************************************************************************)
EXTENDS Integers, Sequences, FiniteSets, TLC

VARIABLES
    demons,     \* table demons: set of rows [id, position, requirement]
    players,    \* table players: set of rows [id, name, banned]
    records,    \* table records: set of rows
    notes,      \* table record_notes: set of rows [record, content]
    ins,        \* per demon-insert task: [pc, position, requirement, result]
    sub,        \* the submission pipeline: [pc, val, arg, fetched, result, prev,
                \* entry]: the stage or statement it is at, the value of that
                \* stage, the value the last call consumed, the requirement
                \* validate read, the Result of the last call, what the normalize
                \* of the submission before this one did, and the tables as they
                \* were when the last call of normalize or validate began
    log,        \* normalize and validate once they returned, create and its
                \* statements once they ran, in order
    calc        \* a call of a pure function: its inputs and what it returned

vars == <<demons, players, records, notes, ins, sub, log, calc>>

----------------------------------------------------------------------------
(* Bounds of the model *)

\* demons in the store at most (caps the insert tasks)
MaxDemons == 3
\* demons in the initial store of the insert specifications at most
InitDemons == 2

\* the tasks that insert demons
Inserters == {1, 2}

\* Option<T>: None is the empty sequence, Some(x) the sequence of x alone
None == <<>>

Some(x) == <<x>>

IsSome(o) == o # <<>>

Unwrap(o) == o[1]

\* requirement values of stored demons (validate_requirement keeps them in 0..100)
Requirements == {50, 100}

----------------------------------------------------------------------------
(* demon/mod.rs: the position primitives *)

RECURSIVE SetMax(_)
\* SQL MAX over a finite non-empty set of integers
SetMax(S) ==
    LET x == CHOOSE y \in S : TRUE
    IN  IF S = {x} THEN x
        ELSE LET m == SetMax(S \ {x}) IN IF x > m THEN x ELSE m

\* Demon::max_position: SELECT MAX(position) FROM demons, unwrap_or(0)
max_position(ds) ==
    IF ds = {} THEN 0 ELSE SetMax({d.position : d \in ds})

\* DemonlistError::InvalidPosition { maximal }
InvalidPosition(maximal) == [error |-> "InvalidPosition", maximal |-> maximal]

Ok == [error |-> "Ok"]

\* Demon::validate_position: the Result it returns on the store ds
validate_position_off_by_one(position, ds) ==
    LET maximal_position == max_position(ds) + 1
    IN  IF position >= maximal_position \/ position < 1
        THEN InvalidPosition(maximal_position)
        ELSE Ok

validate_position(position, ds) ==
    LET maximal_position == max_position(ds) + 1
    IN  IF position > maximal_position \/ position < 1
        THEN InvalidPosition(maximal_position)
        ELSE Ok

\* Demon::shift_down: UPDATE demons SET position = position + 1 WHERE position >= $1
shift_down_exclusive(starting_at, ds) ==
    { IF d.position > starting_at
      THEN [d EXCEPT !.position = d.position + 1]
      ELSE d : d \in ds }

shift_down_all(starting_at, ds) ==
    { [d EXCEPT !.position = d.position + 1] : d \in ds }

shift_down(starting_at, ds) ==
    { IF d.position >= starting_at
      THEN [d EXCEPT !.position = d.position + 1]
      ELSE d : d \in ds }

\* the id the demons table's serial column hands out next
NextDemonId(ds) == IF ds = {} THEN 1 ELSE SetMax({d.id : d \in ds}) + 1

\* the row a demon insert writes: INSERT INTO demons (..., position, requirement, ...)
NewDemon(position, requirement, ds) ==
    [id |-> NextDemonId(ds), position |-> position, requirement |-> requirement]

----------------------------------------------------------------------------
(* Initial stores *)

\* the bijections of 1..n onto itself
Permutations1(n) ==
    { f \in [1..n -> 1..n] : \A i, j \in 1..n : i # j => f[i] # f[j] }

\* the stores of n demons whose positions are exactly 1..n
Stores(n) ==
    { { [id |-> i, position |-> f[i], requirement |-> r[i]] : i \in 1..n } :
        f \in Permutations1(n), r \in [1..n -> Requirements] }

IdleIns == [pc |-> "idle", position |-> 0, requirement |-> 0, result |-> Ok]

IdleSub ==
    [pc |-> "idle", val |-> None, arg |-> None, fetched |-> None, result |-> Ok,
     prev |-> None, entry |-> None]

\* no pure function has been called
IdleCalc == [pc |-> "idle"]

InitInsert ==
    /\ demons \in UNION { Stores(n) : n \in 0..InitDemons }
    /\ players = {}
    /\ records = {}
    /\ notes = {}
    /\ ins = [t \in Inserters |-> IdleIns]
    /\ sub = IdleSub
    /\ log = <<>>
    /\ calc = IdleCalc

----------------------------------------------------------------------------
(* The demon insert: validate_position, shift_down, write *)

\* pc values at which a task is between two inserts
Quiescent(t) == ins[t].pc \in {"idle", "rejected", "done"}

\* the demons the running inserts are still going to add
Pending == Cardinality({t \in Inserters : ~Quiescent(t)})

\* Demon::validate_position(position, connection) called by a new insert
InsertValidate(t, position, requirement) ==
    /\ Quiescent(t)
    /\ Cardinality(demons) + Pending < MaxDemons
    /\ LET r == validate_position(position, demons)
       IN  ins' = [ins EXCEPT ![t] =
                     [pc |-> IF r = Ok THEN "validated" ELSE "rejected",
                      position |-> position,
                      requirement |-> requirement,
                      result |-> r]]
    /\ UNCHANGED <<demons, players, records, notes, sub, log, calc>>

\* Demon::shift_down(position, connection)
InsertShift(t) ==
    /\ ins[t].pc = "validated"
    /\ demons' = shift_down(ins[t].position, demons)
    /\ ins' = [ins EXCEPT ![t].pc = "shifted"]
    /\ UNCHANGED <<players, records, notes, sub, log, calc>>

\* the INSERT INTO demons of the new entry at the validated position
InsertWrite(t) ==
    /\ ins[t].pc = "shifted"
    /\ demons' = demons \cup {NewDemon(ins[t].position, ins[t].requirement, demons)}
    /\ ins' = [ins EXCEPT ![t].pc = "done"]
    /\ UNCHANGED <<players, records, notes, sub, log, calc>>

\* candidate positions handed to validate_position
Candidates == 0..(MaxDemons + 1)

\* no other task is inside an insert: the inserts run one after the other
Alone(t) == \A u \in Inserters \ {t} : Quiescent(u)

NextSeq ==
    \E t \in Inserters :
        \/ Alone(t) /\ \E p \in Candidates, r \in Requirements : InsertValidate(t, p, r)
        \/ Alone(t) /\ InsertShift(t)
        \/ Alone(t) /\ InsertWrite(t)

NextConc ==
    \E t \in Inserters :
        \/ \E p \in Candidates, r \in Requirements : InsertValidate(t, p, r)
        \/ InsertShift(t)
        \/ InsertWrite(t)

\* inserts one at a time
SpecSeq == InitInsert /\ [][NextSeq]_vars

\* inserts interleaved statement by statement
SpecConc == InitInsert /\ [][NextConc]_vars

----------------------------------------------------------------------------
(* record/post.rs: the values of the submission pipeline *)

\* demons in the initial store of the pipeline specification
PipeDemons == 3

\* the requirement of the demon with each id in that store
PipeRequirement(id) == IF id % 2 = 0 THEN 100 ELSE 50

\* the initial stores of the pipeline: each demon at each position
PipeStores ==
    { { [id |-> i, position |-> f[i], requirement |-> PipeRequirement(i)] :
          i \in 1..PipeDemons } : f \in Permutations1(PipeDemons) }

\* RecordStatus; Submitted is the serde default of Submission::status
RecordStatus == {"Submitted", "Approved", "Rejected"}

\* config::list_size(): the last position of the main list
list_size == 1

\* config::extended_list_size(): the last position of the extended list
extended_list_size == 2

Progresses == {50, 100, 101}

PlayerNames == {"alice", "bob"}

Videos == {None, Some("https://youtu.be/abc"), Some("not a video")}

RawFootages == {None, Some("https://host.example/raw.mp4"), Some("not a url")}

Enjoyments == {None, Some(-1), Some(10), Some(11)}

NoteTexts == {None, Some(" "), Some("gg")}

Submitters == {3}

\* the requests the pipeline is fed: struct Submission, and the Submitter of the request
Submissions ==
    [progress : Progresses, player : PlayerNames, demon : 1..(PipeDemons + 1),
     video : Videos, raw_footage : RawFootages, status : RecordStatus,
     enjoyment : Enjoyments, note : NoteTexts, submitter : Submitters]

Err(e) == [error |-> e]

\* DemonlistError::InvalidProgress { requirement }
InvalidProgress(requirement) == [error |-> "InvalidProgress", requirement |-> requirement]

\* video::validate: the canonical form of an accepted video URL
VideoCanonical(video) ==
    IF video = "https://youtu.be/abc" THEN Some("https://www.youtube.com/watch?v=abc")
    ELSE None

\* Url::parse(raw).is_ok(): an absolute URL with a scheme parses, other text does not
UrlParses(raw) == raw \in {"https://host.example/raw.mp4"}

\* str::trim().is_empty() on the note texts
TrimIsEmpty(note) == note \in {"", " "}

\* the id a serial column of the table hands out next
NextId(rows) == IF rows = {} THEN 1 ELSE SetMax({r.id : r \in rows}) + 1

\* DatabasePlayer::by_name_or_create, first statement: the player with this name,
\* None when the table has none
player_by_name(name, ps) ==
    IF \E p \in ps : p.name = name
    THEN Some(CHOOSE p \in ps : p.name = name)
    ELSE None

\* DatabasePlayer::by_name_or_create, second statement: the row the INSERT adds
new_player(name, ps) == [id |-> NextId(ps), name |-> name, banned |-> FALSE]

\* MinimalDemon::by_id: the demon's minimal form, None when the id is unknown
by_id(id, ds) ==
    IF \E d \in ds : d.id = id
    THEN LET d == CHOOSE d \in ds : d.id = id
         IN  Some([id |-> d.id, position |-> d.position])
    ELSE None

\* MinimalDemon::requirement: SELECT requirement FROM demons WHERE id = $1
requirement_of(demon, ds) ==
    (CHOOSE d \in ds : d.id = demon.id).requirement

----------------------------------------------------------------------------
(* Submission::normalize *)

\* the match on self.video: the error of video::validate, or Ok
normalize_video(s) ==
    IF IsSome(s.video) /\ VideoCanonical(Unwrap(s.video)) = None
    THEN Err("MalformedVideoUrl")
    ELSE Ok

\* normalize between its statements: self and the player resolved so far
normalize_partial(s, player) == [self |-> s, player |-> player]

\* the NormalizedSubmission normalize builds
normalize_value(s, player, demon) ==
    [progress |-> s.progress,
     player |-> player,
     demon |-> demon,
     status |-> s.status,
     enjoyment |-> s.enjoyment,
     video |-> IF IsSome(s.video) THEN VideoCanonical(Unwrap(s.video)) ELSE None,
     raw_footage |-> s.raw_footage,
     note |-> s.note,
     submitter |-> s.submitter]

----------------------------------------------------------------------------
(* NormalizedSubmission::validate *)

\* validate before the requirement is fetched: the checks on the player and on
\* the list the demon is in
validate_tier_legacy_first(s) ==
    IF s.demon.position > extended_list_size /\ s.status = "Submitted"
    THEN Err("SubmitLegacy")
    ELSE IF s.player.banned
    THEN Err("PlayerBanned")
    ELSE IF s.demon.position > list_size /\ s.progress # 100 /\ s.status = "Submitted"
    THEN Err("Non100Extended")
    ELSE Ok

validate_tier_non100_first(s) ==
    IF s.player.banned
    THEN Err("PlayerBanned")
    ELSE IF s.demon.position > list_size /\ s.progress # 100 /\ s.status = "Submitted"
    THEN Err("Non100Extended")
    ELSE IF s.demon.position > extended_list_size /\ s.status = "Submitted"
    THEN Err("SubmitLegacy")
    ELSE Ok

validate_tier_any_status(s) ==
    IF s.player.banned
    THEN Err("PlayerBanned")
    ELSE IF s.demon.position > extended_list_size /\ s.status = "Submitted"
    THEN Err("SubmitLegacy")
    ELSE IF s.demon.position > list_size /\ s.progress # 100
    THEN Err("Non100Extended")
    ELSE Ok

validate_tier(s) ==
    IF s.player.banned
    THEN Err("PlayerBanned")
    ELSE IF s.demon.position > extended_list_size /\ s.status = "Submitted"
    THEN Err("SubmitLegacy")
    ELSE IF s.demon.position > list_size /\ s.progress # 100 /\ s.status = "Submitted"
    THEN Err("Non100Extended")
    ELSE Ok

\* validate once the requirement is fetched: progress, enjoyment, raw footage
validate_record_requirement_exclusive(s, requirement) ==
    IF s.progress > 100 \/ s.progress <= requirement
    THEN InvalidProgress(requirement)
    ELSE IF IsSome(s.enjoyment)
            /\ (Unwrap(s.enjoyment) < 0 \/ Unwrap(s.enjoyment) > 10)
    THEN Err("InvalidEnjoyment")
    ELSE IF IsSome(s.raw_footage)
    THEN (IF UrlParses(Unwrap(s.raw_footage)) THEN Ok ELSE Err("MalformedRawUrl"))
    ELSE IF s.status = "Submitted"
    THEN Err("RawRequired")
    ELSE Ok

validate_record_raw_always(s, requirement) ==
    IF s.progress > 100 \/ s.progress < requirement
    THEN InvalidProgress(requirement)
    ELSE IF IsSome(s.enjoyment)
            /\ (Unwrap(s.enjoyment) < 0 \/ Unwrap(s.enjoyment) > 10)
    THEN Err("InvalidEnjoyment")
    ELSE IF IsSome(s.raw_footage)
    THEN (IF UrlParses(Unwrap(s.raw_footage)) THEN Ok ELSE Err("MalformedRawUrl"))
    ELSE Err("RawRequired")

validate_record_enjoyment_unchecked(s, requirement) ==
    IF s.progress > 100 \/ s.progress < requirement
    THEN InvalidProgress(requirement)
    ELSE IF IsSome(s.raw_footage)
    THEN (IF UrlParses(Unwrap(s.raw_footage)) THEN Ok ELSE Err("MalformedRawUrl"))
    ELSE IF s.status = "Submitted"
    THEN Err("RawRequired")
    ELSE Ok

validate_record(s, requirement) ==
    IF s.progress > 100 \/ s.progress < requirement
    THEN InvalidProgress(requirement)
    ELSE IF IsSome(s.enjoyment)
            /\ (Unwrap(s.enjoyment) < 0 \/ Unwrap(s.enjoyment) > 10)
    THEN Err("InvalidEnjoyment")
    ELSE IF IsSome(s.raw_footage)
    THEN (IF UrlParses(Unwrap(s.raw_footage)) THEN Ok ELSE Err("MalformedRawUrl"))
    ELSE IF s.status = "Submitted"
    THEN Err("RawRequired")
    ELSE Ok

\* the requirement validate reads from the store ds: None when an earlier check
\* returned before the query
validate_fetch(s, ds) ==
    IF validate_tier(s) = Ok THEN Some(requirement_of(s.demon, ds)) ELSE None

\* the Result of validate on the store ds: the first failing check's error, or Ok
validate(s, ds) ==
    IF validate_tier(s) # Ok
    THEN validate_tier(s)
    ELSE validate_record(s, Unwrap(validate_fetch(s, ds)))

\* the ValidatedSubmission validate builds: every field moved over
validated_value(s) ==
    [progress |-> s.progress,
     video |-> s.video,
     raw_footage |-> s.raw_footage,
     status |-> s.status,
     enjoyment |-> s.enjoyment,
     player |-> s.player,
     demon |-> s.demon,
     note |-> s.note,
     submitter |-> s.submitter]

----------------------------------------------------------------------------
(* ValidatedSubmission::create *)

\* the row with the status of the submission written by the insert itself
\* the row INSERT INTO records (progress, video, status_, player, submitter, demon,
\* raw_footage) writes; the enjoyment column is not among the columns written
record_row(v, rows) ==
    [id |-> NextId(rows),
     progress |-> v.progress,
     video |-> v.video,
     status |-> "Submitted",
     player |-> v.player.id,
     submitter |-> v.submitter,
     demon |-> v.demon.id,
     raw_footage |-> v.raw_footage,
     enjoyment |-> None]

\* the FullRecord create builds after the insert, with the rest of the
\* ValidatedSubmission it still has to work off
full_record(v, id) ==
    [id |-> id,
     progress |-> v.progress,
     video |-> v.video,
     raw_footage |-> v.raw_footage,
     status |-> "Submitted",
     enjoyment |-> v.enjoyment,
     player |-> v.player,
     demon |-> v.demon,
     submitter |-> Some(v.submitter),
     requested |-> v.status,
     note |-> v.note]

\* FullRecord::set_status: the records table with the row's status replaced
set_status_rows(id, status, rows) ==
    { IF r.id = id THEN [r EXCEPT !.status = status] ELSE r : r \in rows }

----------------------------------------------------------------------------
(* The pipeline, one step per call or SQL statement *)

\* a request arrives
Submit ==
    /\ sub.pc = "idle"
    /\ \E s \in Submissions :
         sub' = [pc |-> "Submission", val |-> Some(s),
                 arg |-> None, fetched |-> None, result |-> Ok, prev |-> None,
                 entry |-> None]
    /\ log' = <<>>
    /\ UNCHANGED <<demons, players, records, notes, ins, calc>>

\* the four tables
Store == [players |-> players, records |-> records, notes |-> notes, demons |-> demons]

\* normalize whose lookup of the player never finds one
NormalizePlayerSelectNeverFinds ==
    /\ sub.pc = "Submission"
    /\ LET s == Unwrap(sub.val)
           r == normalize_video(s)
       IN  IF r # Ok
           THEN /\ sub' = [sub EXCEPT !.pc = "Failed", !.val = None, !.arg = sub.val,
                                      !.result = r, !.entry = Some(Store)]
                /\ log' = Append(log, "normalize")
           ELSE /\ sub' = [sub EXCEPT !.pc = "normalize_insert",
                                      !.val = Some(normalize_partial(s, None)),
                                      !.arg = sub.val, !.entry = Some(Store)]
                /\ log' = log
    /\ UNCHANGED <<demons, players, records, notes, ins, calc>>

\* Submission::normalize up to the first statement of by_name_or_create: the
\* video is validated, then the player is looked up by name
NormalizePlayerSelect ==
    /\ sub.pc = "Submission"
    /\ LET s == Unwrap(sub.val)
           r == normalize_video(s)
           found == player_by_name(s.player, players)
       IN  IF r # Ok
           THEN /\ sub' = [sub EXCEPT !.pc = "Failed", !.val = None, !.arg = sub.val,
                                      !.result = r, !.entry = Some(Store)]
                /\ log' = Append(log, "normalize")
           ELSE /\ sub' = [sub EXCEPT
                             !.pc = IF found = None THEN "normalize_insert"
                                                    ELSE "normalize_demon",
                             !.val = Some(normalize_partial(s, found)),
                             !.arg = sub.val, !.entry = Some(Store)]
                /\ log' = log
    /\ UNCHANGED <<demons, players, records, notes, ins, calc>>

\* by_name_or_create: the INSERT of the player that was not found
NormalizePlayerInsert ==
    /\ sub.pc = "normalize_insert"
    /\ LET n == Unwrap(sub.val)
           row == new_player(n.self.player, players)
       IN  /\ players' = players \cup {row}
           /\ sub' = [sub EXCEPT !.pc = "normalize_demon",
                                 !.val = Some(normalize_partial(n.self, Some(row)))]
    /\ UNCHANGED <<demons, records, notes, ins, log, calc>>

\* MinimalDemon::by_id, and the return of normalize
NormalizeDemon ==
    /\ sub.pc = "normalize_demon"
    /\ LET n == Unwrap(sub.val)
           demon == by_id(n.self.demon, demons)
       IN  sub' = [sub EXCEPT
                     !.pc = IF demon = None THEN "Failed" ELSE "Normalized",
                     !.val = IF demon = None THEN None
                             ELSE Some(normalize_value(n.self, Unwrap(n.player),
                                                       Unwrap(demon))),
                     !.result = IF demon = None THEN Err("DemonNotFound") ELSE Ok]
    /\ log' = Append(log, "normalize")
    /\ UNCHANGED <<demons, players, records, notes, ins, calc>>

\* NormalizedSubmission::validate(self, connection)
Validate ==
    /\ sub.pc = "Normalized"
    /\ LET s == Unwrap(sub.val)
           r == validate(s, demons)
       IN  sub' = [sub EXCEPT
                     !.pc = IF r = Ok THEN "Validated" ELSE "Failed",
                     !.val = IF r = Ok THEN Some(validated_value(s)) ELSE None,
                     !.arg = sub.val,
                     !.fetched = validate_fetch(s, demons),
                     !.result = r,
                     !.entry = Some(Store)]
    /\ log' = Append(log, "validate")
    /\ UNCHANGED <<demons, players, records, notes, ins, calc>>

\* create taking a submission that validate has not been through
CreateInsertUnvalidated ==
    /\ sub.pc \in {"Normalized", "Validated"}
    /\ LET v == Unwrap(sub.val)
           row == record_row(v, records)
       IN  /\ records' = records \cup {row}
           /\ sub' = [sub EXCEPT !.pc = "create_status",
                                 !.val = Some(full_record(v, row.id)),
                                 !.arg = sub.val]
    /\ log' = Append(log, "create")
    /\ UNCHANGED <<demons, players, notes, ins, calc>>

\* ValidatedSubmission::create: the INSERT INTO records and the FullRecord
CreateInsert ==
    /\ sub.pc = "Validated"
    /\ LET v == Unwrap(sub.val)
           row == record_row(v, records)
       IN  /\ records' = records \cup {row}
           /\ sub' = [sub EXCEPT !.pc = "create_status",
                                 !.val = Some(full_record(v, row.id)),
                                 !.arg = sub.val]
    /\ log' = Append(log, "create")
    /\ UNCHANGED <<demons, players, notes, ins, calc>>

\* create: record.set_status(self.status) when the status is not Submitted
CreateSetStatus ==
    /\ sub.pc = "create_status"
    /\ LET rec == Unwrap(sub.val)
       IN  IF rec.requested # "Submitted"
           THEN /\ records' = set_status_rows(rec.id, rec.requested, records)
                /\ sub' = [sub EXCEPT !.pc = "create_note",
                                      !.val = Some([rec EXCEPT !.status = rec.requested])]
                /\ log' = Append(log, "set_status")
           ELSE /\ sub' = [sub EXCEPT !.pc = "create_note"]
                /\ UNCHANGED <<records, log>>
    /\ UNCHANGED <<demons, players, notes, ins, calc>>

\* create: INSERT INTO record_notes when the note is not blank
CreateNote ==
    /\ sub.pc = "create_note"
    /\ LET rec == Unwrap(sub.val)
       IN  IF IsSome(rec.note) /\ ~TrimIsEmpty(Unwrap(rec.note))
           THEN /\ notes' = notes \cup {[record |-> rec.id, content |-> Unwrap(rec.note)]}
                /\ log' = Append(log, "note")
           ELSE UNCHANGED <<notes, log>>
    /\ sub' = [sub EXCEPT !.pc = "create_score"]
    /\ UNCHANGED <<demons, players, records, ins, calc>>

\* create recomputing the score whatever the status is
CreateScoreAlways ==
    /\ sub.pc = "create_score"
    /\ log' = Append(log, "update_score")
    /\ sub' = [sub EXCEPT !.pc = "Persisted"]
    /\ UNCHANGED <<demons, players, records, notes, ins, calc>>

\* create: record.player.update_score when the status is not Submitted; Ok(record)
CreateScore ==
    /\ sub.pc = "create_score"
    /\ LET rec == Unwrap(sub.val)
       IN  IF rec.requested # "Submitted"
           THEN log' = Append(log, "update_score")
           ELSE UNCHANGED log
    /\ sub' = [sub EXCEPT !.pc = "Persisted"]
    /\ UNCHANGED <<demons, players, records, notes, ins, calc>>

\* the statement create is about to run, None when the step runs none
CreateStatement ==
    LET rec == Unwrap(sub.val)
    IN  IF sub.pc = "create_status" /\ rec.requested # "Submitted" THEN Some("set_status")
        ELSE IF sub.pc = "create_note" /\ IsSome(rec.note) /\ ~TrimIsEmpty(Unwrap(rec.note))
        THEN Some("note")
        ELSE IF sub.pc = "create_score" /\ rec.requested # "Submitted"
        THEN Some("update_score")
        ELSE None

\* create: set_status, the note insert or update_score returns an error, which the
\* `?` hands to the caller of create
CreateStepFails ==
    /\ sub.pc \in {"create_status", "create_note", "create_score"}
    /\ CreateStatement # None
    /\ sub' = [sub EXCEPT !.pc = "Failed", !.result = Err("Database")]
    /\ log' = Append(log, "error")
    /\ UNCHANGED <<demons, players, records, notes, ins, calc>>

InitPipe ==
    /\ demons \in PipeStores
    /\ players \in { {[id |-> 1, name |-> "alice", banned |-> b]} : b \in BOOLEAN }
    /\ records = {}
    /\ notes = {}
    /\ ins = [t \in Inserters |-> IdleIns]
    /\ sub = IdleSub
    /\ log = <<>>
    /\ calc = IdleCalc

NextPipe ==
    \/ Submit
    \/ NormalizePlayerSelect
    \/ NormalizePlayerInsert
    \/ NormalizeDemon
    \/ Validate
    \/ CreateInsert
    \/ CreateSetStatus
    \/ CreateNote
    \/ CreateScore
    \/ CreateStepFails

\* one submission taken through the pipeline, on a store of demons that no insert
\* changes
SpecPipe == InitPipe /\ [][NextPipe]_vars

----------------------------------------------------------------------------
(* A submission in the pipeline while a demon is inserted *)

\* the requests of this specification: progress, player, demon and status vary,
\* the other fields pass every check
TierSubmissions ==
    { s \in Submissions :
        /\ s.video = None
        /\ s.raw_footage = Some("https://host.example/raw.mp4")
        /\ s.enjoyment = None
        /\ s.note = None }

\* a request arrives
SubmitTier ==
    /\ sub.pc = "idle"
    /\ \E s \in TierSubmissions :
         sub' = [pc |-> "Submission", val |-> Some(s),
                 arg |-> None, fetched |-> None, result |-> Ok, prev |-> None,
                 entry |-> None]
    /\ log' = <<>>
    /\ UNCHANGED <<demons, players, records, notes, ins, calc>>

\* the task that inserts a demon while the submission is in the pipeline
MixedInserters == {CHOOSE t \in Inserters : TRUE}

InitMixed ==
    /\ demons \in Stores(InitDemons)
    /\ players = {[id |-> 1, name |-> "alice", banned |-> FALSE]}
    /\ records = {}
    /\ notes = {}
    /\ ins = [t \in Inserters |-> IdleIns]
    /\ sub = IdleSub
    /\ log = <<>>
    /\ calc = IdleCalc

NextMixed ==
    \/ SubmitTier
    \/ NormalizePlayerSelect
    \/ NormalizePlayerInsert
    \/ NormalizeDemon
    \/ Validate
    \/ CreateInsert
    \/ CreateSetStatus
    \/ CreateNote
    \/ CreateScore
    \/ CreateStepFails
    \/ \E t \in MixedInserters, p \in Candidates, r \in Requirements :
         InsertValidate(t, p, r)
    \/ \E t \in MixedInserters : InsertShift(t)
    \/ \E t \in MixedInserters : InsertWrite(t)

\* the statements of one submission and of one demon insert, interleaved
SpecMixed == InitMixed /\ [][NextMixed]_vars

----------------------------------------------------------------------------
(* Demon::score *)

\* the 0.0 of the early return
Zero == [kind |-> "zero"]

\* the match on the position: the arm that computes beaten_score, named by the
\* first position of its range; 0 is the wildcard arm, whose value is 0
beaten_score(position) ==
    IF position >= 56 /\ position <= 150 THEN 56
    ELSE IF position >= 36 /\ position <= 55 THEN 36
    ELSE IF position >= 21 /\ position <= 35 THEN 21
    ELSE IF position >= 4 /\ position <= 20 THEN 4
    ELSE IF position >= 1 /\ position <= 3 THEN 1
    ELSE 0

\* the value returned as the expression that computes it: the early 0.0, the
\* beaten score, or beaten_score * 5^(numerator / denominator) / 10
score_no_floor(position, requirement, progress) ==
    IF progress # 100
    THEN [kind |-> "partial", arm |-> beaten_score(position),
          numerator |-> progress - requirement, denominator |-> 100 - requirement]
    ELSE [kind |-> "beaten", arm |-> beaten_score(position)]

score_floor_off_by_one(position, requirement, progress) ==
    IF progress < requirement - 1
    THEN Zero
    ELSE IF progress # 100
    THEN [kind |-> "partial", arm |-> beaten_score(position),
          numerator |-> progress - requirement, denominator |-> 100 - requirement]
    ELSE [kind |-> "beaten", arm |-> beaten_score(position)]

score(position, requirement, progress) ==
    IF progress < requirement
    THEN Zero
    ELSE IF progress # 100
    THEN [kind |-> "partial", arm |-> beaten_score(position),
          numerator |-> progress - requirement, denominator |-> 100 - requirement]
    ELSE [kind |-> "beaten", arm |-> beaten_score(position)]

\* positions on both sides of every range of the match
ScorePositions == {0, 1, 3, 4, 20, 21, 35, 36, 55, 56, 150, 151}

\* requirements Demon::validate_requirement accepts
ScoreRequirements == {0, 50, 100}

\* progress is an i16: values below, at and above the requirements and 100
ScoreProgresses == {-1, 0, 49, 50, 99, 100, 101}

InitScore ==
    /\ demons = {}
    /\ players = {}
    /\ records = {}
    /\ notes = {}
    /\ ins = [t \in Inserters |-> IdleIns]
    /\ sub = IdleSub
    /\ log = <<>>
    /\ calc \in [pc : {"input"}, position : ScorePositions,
                  requirement : ScoreRequirements, progress : ScoreProgresses,
                  result : {None}]

\* demon.score(progress)
Score ==
    /\ calc.pc = "input"
    /\ calc' = [calc EXCEPT
                  !.pc = "score",
                  !.result = Some(score(calc.position, calc.requirement, calc.progress))]
    /\ UNCHANGED <<demons, players, records, notes, ins, sub, log>>

NextScore == Score

SpecScore == InitScore /\ [][NextScore]_vars

----------------------------------------------------------------------------
(* Difficulty *)

\* enum Difficulty
Difficulty ==
    {"Silent", "Legendary", "Extreme", "Mythical", "Insane", "Hard", "Medium",
     "Easy", "Beginner"}

\* the outcome of a match arm that panics
Panic(text) == [panic |-> text]

\* Ok(difficulty) of deserialize
DeOk(d) == [ok |-> d]

\* Difficulty::to_sql
to_sql(d) ==
    IF d = "Silent" THEN "silent"
    ELSE IF d = "Legendary" THEN "legendary"
    ELSE IF d = "Extreme" THEN "extreme"
    ELSE IF d = "Mythical" THEN "mythical"
    ELSE IF d = "Insane" THEN "insane"
    ELSE IF d = "Hard" THEN "hard"
    ELSE IF d = "Medium" THEN "medium"
    ELSE IF d = "Easy" THEN "easy"
    ELSE IF d = "Beginner" THEN "beginner"
    ELSE Panic("not a Difficulty")

\* Difficulty::from_sql: an unknown token panics
from_sql(sql) ==
    IF sql = "silent" THEN "Silent"
    ELSE IF sql = "legendary" THEN "Legendary"
    ELSE IF sql = "extreme" THEN "Extreme"
    ELSE IF sql = "mythical" THEN "Mythical"
    ELSE IF sql = "insane" THEN "Insane"
    ELSE IF sql = "hard" THEN "Hard"
    ELSE IF sql = "medium" THEN "Medium"
    ELSE IF sql = "easy" THEN "Easy"
    ELSE IF sql = "beginner" THEN "Beginner"
    ELSE Panic(sql)

\* impl Display for Difficulty
Display(d) ==
    IF d = "Silent" THEN "silent"
    ELSE IF d = "Legendary" THEN "legendary"
    ELSE IF d = "Extreme" THEN "extreme"
    ELSE IF d = "Mythical" THEN "mythical"
    ELSE IF d = "Insane" THEN "insane"
    ELSE IF d = "Hard" THEN "hard"
    ELSE IF d = "Medium" THEN "medium"
    ELSE IF d = "Easy" THEN "easy"
    ELSE IF d = "Beginner" THEN "beginner"
    ELSE Panic("not a Difficulty")

\* impl Serialize for Difficulty: serialize_str(&self.to_string())
serialize(d) == Display(d)

\* the tokens with an upper-case letter among the tokens tried, each with its
\* lower-case form
CasePairs ==
    {<<"Silent", "silent">>, <<"Legendary", "legendary">>, <<"Extreme", "extreme">>,
     <<"Mythical", "mythical">>, <<"Insane", "insane">>, <<"Hard", "hard">>,
     <<"Medium", "medium">>, <<"Easy", "easy">>, <<"Beginner", "beginner">>,
     <<"SILENT", "silent">>, <<"HARD", "hard">>, <<"eAsY", "easy">>,
     <<"Impossible", "impossible">>, <<"IMPOSSIBLE", "impossible">>}

\* str::to_lowercase on the tokens tried
to_lowercase(string) ==
    IF \E p \in CasePairs : p[1] = string
    THEN (CHOOSE p \in CasePairs : p[1] = string)[2]
    ELSE string

\* the match of deserialize on a string
deserialize_match(string) ==
    IF string = "silent" THEN DeOk("Silent")
    ELSE IF string = "legendary" THEN DeOk("Legendary")
    ELSE IF string = "extreme" THEN DeOk("Extreme")
    ELSE IF string = "mythical" THEN DeOk("Mythical")
    ELSE IF string = "insane" THEN DeOk("Insane")
    ELSE IF string = "hard" THEN DeOk("Hard")
    ELSE IF string = "medium" THEN DeOk("Medium")
    ELSE IF string = "easy" THEN DeOk("Easy")
    ELSE IF string = "beginner" THEN DeOk("Beginner")
    ELSE Err("invalid_value")

deserialize_case_sensitive(token) == deserialize_match(token)

\* impl Deserialize for Difficulty: the string is lower-cased, then matched
deserialize(token) == deserialize_match(to_lowercase(token))

\* the tokens tried: the nine tokens, other spellings of them, and other text
DifficultyTokens ==
    {to_sql(d) : d \in Difficulty} \cup {p[1] : p \in CasePairs}
      \cup {"impossible", "", "silent ", "demon", "hard!"}

InitDifficulty ==
    /\ demons = {}
    /\ players = {}
    /\ records = {}
    /\ notes = {}
    /\ ins = [t \in Inserters |-> IdleIns]
    /\ sub = IdleSub
    /\ log = <<>>
    /\ calc \in [pc : {"input"}, d : Difficulty, token : DifficultyTokens,
                  result : {None}]

\* every conversion applied to the difficulty and to the token
Convert ==
    /\ calc.pc = "input"
    /\ calc' = [calc EXCEPT
                  !.pc = "converted",
                  !.result = Some([to_sql |-> to_sql(calc.d),
                                   from_sql |-> from_sql(to_sql(calc.d)),
                                   display |-> Display(calc.d),
                                   serialize |-> serialize(calc.d),
                                   deserialize |-> deserialize(serialize(calc.d)),
                                   token_deserialize |-> deserialize(calc.token),
                                   token_from_sql |-> from_sql(calc.token)])]
    /\ UNCHANGED <<demons, players, records, notes, ins, sub, log>>

NextDifficulty == Convert

SpecDifficulty == InitDifficulty /\ [][NextDifficulty]_vars

----------------------------------------------------------------------------
(* Two submissions normalized one after the other *)

\* the requests of this specification: player, demon and video vary
ResolveSubmissions ==
    { s \in Submissions :
        /\ s.progress = 100
        /\ s.status = "Submitted"
        /\ s.raw_footage = None
        /\ s.enjoyment = None
        /\ s.note = None }

\* the first request arrives
SubmitFirst ==
    /\ sub.pc = "idle"
    /\ \E s \in ResolveSubmissions :
         sub' = [pc |-> "Submission", val |-> Some(s),
                 arg |-> None, fetched |-> None, result |-> Ok, prev |-> None,
                 entry |-> None]
    /\ log' = <<>>
    /\ UNCHANGED <<demons, players, records, notes, ins, calc>>

\* the second request arrives once normalize has returned for the first
SubmitSecond ==
    /\ sub.pc \in {"Normalized", "Failed"}
    /\ sub.prev = None
    /\ \E s \in ResolveSubmissions :
         sub' = [pc |-> "Submission", val |-> Some(s),
                 arg |-> None, fetched |-> None, result |-> Ok,
                 prev |-> Some([arg |-> Unwrap(sub.arg), result |-> sub.result,
                                val |-> sub.val, players |-> players]),
                 entry |-> None]
    /\ UNCHANGED <<demons, players, records, notes, ins, log, calc>>

NextResolve ==
    \/ SubmitFirst
    \/ NormalizePlayerSelect
    \/ NormalizePlayerInsert
    \/ NormalizeDemon
    \/ SubmitSecond

SpecResolve == InitPipe /\ [][NextResolve]_vars

----------------------------------------------------------------------------
(* Position contiguity *)

\* the positions are exactly 1..N, N the demon count, none twice
Contiguous(ds) ==
    /\ { d.position : d \in ds } = 1..Cardinality(ds)
    /\ \A d, e \in ds : d.position = e.position => d = e

AllQuiescent == \A t \in Inserters : Quiescent(t)

\* C1: after any sequence of inserts run one after the other (validate_position
\* succeeding, shift_down, write), the positions are exactly 1..N' with no gap and
\* no duplicate, N' the demon count.
SeqInsertsKeepContiguity == AllQuiescent => Contiguous(demons)

\* an insert above other demons of a list of at least three demons has completed
SeqInsertDoneInMiddle ==
    \E t \in Inserters :
        /\ ins[t].pc = "done"
        /\ Cardinality(demons) >= 3
        /\ \E d \in demons : d.position > ins[t].position

\* C2: once all concurrently running inserts have completed (two of them may target
\* the same position), the positions are exactly 1..N with no gap and no duplicate.
ConcInsertsKeepContiguity ==
    (\A t \in Inserters : ins[t].pc \in {"idle", "rejected", "done"})
        => /\ \A d, e \in demons : d.position = e.position => d.id = e.id
           /\ \A k \in 1..Cardinality(demons) : \E d \in demons : d.position = k

----------------------------------------------------------------------------
(* validate_position *)

\* the highest position of the store, 0 for the empty store
Highest(ds) ==
    IF ds = {} THEN 0
    ELSE CHOOSE m \in { d.position : d \in ds } : \A d \in ds : d.position <= m

\* task t has just returned from validate_position
ValidatePositionReturned(t) ==
    /\ ins[t].pc \in {"idle", "rejected", "done"}
    /\ ins'[t] # ins[t]

\* C3: validate_position(p) succeeds iff 1 <= p <= max_position()+1 (only p = 1 on
\* the empty store); otherwise it fails with InvalidPosition whose maximal is
\* max_position()+1; the store is unchanged either way.
ValidatePositionContract ==
    [][\A t \in Inserters :
         ValidatePositionReturned(t) =>
           LET p == ins'[t].position
               m == Highest(demons)
           IN  /\ ins'[t].pc \in {"validated", "rejected"}
               /\ ins'[t].pc = "validated" <=> (1 <= p /\ p <= m + 1)
               /\ ins'[t].pc = "validated" => ins'[t].result = Ok
               /\ ins'[t].pc = "rejected" => ins'[t].result = InvalidPosition(m + 1)
               /\ demons = {} => (ins'[t].pc = "validated" <=> p = 1)
               /\ demons' = demons]_vars

\* one task was rejected above the legal range while another was accepted at the
\* end of a non-empty list
ValidatePositionBothOutcomes ==
    \E t, u \in Inserters :
        /\ demons # {}
        /\ ins[t].pc = "rejected"
        /\ ins[t].position = Highest(demons) + 2
        /\ ins[t].result = InvalidPosition(Highest(demons) + 1)
        /\ ins[u].pc = "validated"
        /\ ins[u].position = Highest(demons) + 1

----------------------------------------------------------------------------
(* The stages of the pipeline *)

\* C4: a record row is persisted only by create on a ValidatedSubmission, which
\* exists only after normalize and then validate both succeeded on that submission,
\* in that order; no stage is entered twice; a submission whose normalize or
\* validate failed never reaches create.
PipelineStagesInOrder ==
    [][/\ records' # records =>
            /\ sub.pc \in {"Validated", "create_status"}
            /\ SubSeq(log', 1, 3) = <<"normalize", "validate", "create">>
       /\ (sub'.pc = "Validated" /\ sub.pc # "Validated") =>
            /\ sub.pc = "Normalized"
            /\ sub'.result = Ok
            /\ log' = <<"normalize", "validate">>
       /\ (sub'.pc = "Normalized" /\ sub.pc # "Normalized") =>
            /\ sub.pc = "normalize_demon"
            /\ sub'.result = Ok
            /\ log' = <<"normalize">>
       /\ sub.pc = "Failed" =>
            /\ sub.result # Ok
            /\ records' = records
            /\ log' = log
       /\ \A i, j \in 1..Len(log') :
            (log'[i] = log'[j] /\ log'[i] \in {"normalize", "validate", "create"})
                => i = j]_vars

\* a record row is in the store after all three stages ran, and nothing else ran before
RecordPersistedAfterStages ==
    /\ sub.pc = "Persisted"
    /\ records # {}
    /\ SubSeq(log, 1, 3) = <<"normalize", "validate", "create">>

----------------------------------------------------------------------------
(* The rules of validate *)

\* validate has just returned: its argument is sub.arg, its Result sub.result
Validated == log = <<"normalize", "validate">>

\* the NormalizedSubmission validate was called on
Arg == Unwrap(sub.arg)

\* the requirement of the submission's demon in the store
StoredRequirement == (CHOOSE d \in demons : d.id = Arg.demon.id).requirement

\* the rules of validate in the order they are tried, each with its error
Rules(s, requirement) ==
    << [fails |-> s.player.banned,
        error |-> Err("PlayerBanned")],
       [fails |-> s.demon.position > extended_list_size /\ s.status = "Submitted",
        error |-> Err("SubmitLegacy")],
       [fails |-> /\ s.demon.position > list_size
                  /\ s.progress # 100
                  /\ s.status = "Submitted",
        error |-> Err("Non100Extended")],
       [fails |-> s.progress > 100 \/ s.progress < requirement,
        error |-> InvalidProgress(requirement)],
       [fails |-> /\ s.enjoyment # None
                  /\ ~(0 <= s.enjoyment[1] /\ s.enjoyment[1] <= 10),
        error |-> Err("InvalidEnjoyment")],
       [fails |-> s.raw_footage # None /\ ~UrlParses(s.raw_footage[1]),
        error |-> Err("MalformedRawUrl")],
       [fails |-> s.raw_footage = None /\ s.status = "Submitted",
        error |-> Err("RawRequired")] >>

\* the error of the first rule that fails, Ok when none does
FirstFailure(rules) ==
    IF \A i \in 1..Len(rules) : ~rules[i].fails THEN Ok
    ELSE rules[CHOOSE i \in 1..Len(rules) :
                 rules[i].fails /\ \A j \in 1..(i - 1) : ~rules[j].fails].error

\* C5: validate returns the error of the first rule that fails in the order
\* PlayerBanned, SubmitLegacy, Non100Extended, InvalidProgress, InvalidEnjoyment,
\* MalformedRawUrl or RawRequired, and succeeds iff no rule fails; the requirement
\* is not read once one of the first three rules has failed.
ValidateFirstFailingRule ==
    Validated =>
        /\ sub.result = FirstFailure(Rules(Arg, StoredRequirement))
        /\ sub.pc = IF sub.result = Ok THEN "Validated" ELSE "Failed"
        /\ (\E i \in 1..3 : Rules(Arg, StoredRequirement)[i].fails)
              => sub.fetched = None

\* validate returned the error of an early rule although a later rule fails as well
ValidateTwoRulesFail ==
    /\ Validated
    /\ sub.result = Err("Non100Extended")
    /\ Rules(Arg, StoredRequirement)[4].fails
    /\ Rules(Arg, StoredRequirement)[5].fails
    /\ Rules(Arg, StoredRequirement)[7].fails

\* C6: a NormalizedSubmission whose player is banned fails validate with
\* PlayerBanned whatever its other fields are.
BannedAlwaysPlayerBanned ==
    (Validated /\ Arg.player.banned) => sub.result = Err("PlayerBanned")

\* the submission of test_banned_cannot_submit was rejected: banned player, progress
\* 100, enjoyment 10, demon at position 1, no video, no raw footage, no note
BannedOtherwiseValidRejected ==
    /\ Validated
    /\ Arg.player.banned
    /\ Arg.progress = 100
    /\ Arg.enjoyment = Some(10)
    /\ Arg.demon.position = 1
    /\ Arg.status = "Submitted"
    /\ Arg.video = None /\ Arg.raw_footage = None /\ Arg.note = None
    /\ sub.result = Err("PlayerBanned")

\* C7 as stated: a submission for a demon beyond extended_list_size with status
\* Submitted fails validate with SubmitLegacy whatever its other fields are.
LegacyAlwaysSubmitLegacy ==
    (Validated /\ Arg.demon.position > extended_list_size /\ Arg.status = "Submitted")
        => sub.result = Err("SubmitLegacy")

\* C7 amended: a submission by a player who is not banned, for a demon beyond
\* extended_list_size and with status Submitted, fails validate with SubmitLegacy
\* whatever its other fields are.
LegacyUnbannedSubmitLegacy ==
    (/\ Validated
     /\ ~Arg.player.banned
     /\ Arg.demon.position > extended_list_size
     /\ Arg.status = "Submitted")
        => sub.result = Err("SubmitLegacy")

\* a legacy submission that breaks later rules too was rejected with SubmitLegacy
LegacyRejected ==
    /\ Validated
    /\ ~Arg.player.banned
    /\ Arg.demon.position > extended_list_size
    /\ Arg.status = "Submitted"
    /\ Arg.progress = 50
    /\ Arg.raw_footage = None
    /\ sub.result = Err("SubmitLegacy")

\* C8: for a demon at a position p with list_size < p <= extended_list_size and a
\* player who is not banned, validate with status Submitted and progress # 100 fails
\* with Non100Extended; with progress = 100, or with another status and any
\* progress, this rule does not reject.
ExtendedOnlyFullClears ==
    (/\ Validated
     /\ ~Arg.player.banned
     /\ list_size < Arg.demon.position
     /\ Arg.demon.position <= extended_list_size)
        => /\ (Arg.status = "Submitted" /\ Arg.progress # 100)
                => sub.result = Err("Non100Extended")
           /\ (Arg.status # "Submitted" \/ Arg.progress = 100)
                => sub.result # Err("Non100Extended")

\* on the extended list a partial record with another status than Submitted was
\* accepted
ExtendedPartialByModAccepted ==
    /\ Validated
    /\ ~Arg.player.banned
    /\ list_size < Arg.demon.position
    /\ Arg.demon.position <= extended_list_size
    /\ Arg.status # "Submitted"
    /\ Arg.progress # 100
    /\ sub.result = Ok

\* the rules on the player and on the list of the demon do not fire
TierRulesPass ==
    /\ ~Arg.player.banned
    /\ ~(Arg.demon.position > extended_list_size /\ Arg.status = "Submitted")
    /\ ~(Arg.demon.position > list_size /\ Arg.progress # 100 /\ Arg.status = "Submitted")

\* C9: when the banned and tier rules do not fire, validate reads the demon's
\* requirement from the store and fails with InvalidProgress carrying that value
\* iff progress > 100 or progress < requirement; a progress with
\* requirement <= progress <= 100 is never rejected with InvalidProgress.
ProgressAgainstStoredRequirement ==
    Validated =>
        /\ TierRulesPass =>
             /\ sub.fetched = Some(StoredRequirement)
             /\ sub.result = InvalidProgress(StoredRequirement)
                  <=> (Arg.progress > 100 \/ Arg.progress < StoredRequirement)
        /\ (StoredRequirement <= Arg.progress /\ Arg.progress <= 100)
             => sub.result.error # "InvalidProgress"

\* a progress equal to the requirement, below 100, passed the progress rule of a
\* demon whose id is not its position
ProgressAtRequirementPasses ==
    /\ Validated
    /\ TierRulesPass
    /\ Arg.demon.id # Arg.demon.position
    /\ Arg.progress = StoredRequirement
    /\ Arg.progress < 100
    /\ sub.result = Ok

\* the rules before the raw footage rule pass
EarlierRulesPass ==
    /\ TierRulesPass
    /\ ~(Arg.progress > 100 \/ Arg.progress < StoredRequirement)
    /\ ~(Arg.enjoyment # None /\ (Arg.enjoyment[1] < 0 \/ Arg.enjoyment[1] > 10))

\* C10: when all earlier rules pass, validate with raw_footage absent fails with
\* RawRequired if the status is Submitted and passes otherwise; a raw_footage that
\* is present is accepted iff it parses as a URL, and is MalformedRawUrl otherwise,
\* whatever the status.
RawFootageRule ==
    (Validated /\ EarlierRulesPass) =>
        /\ (Arg.raw_footage = None /\ Arg.status = "Submitted")
             => sub.result = Err("RawRequired")
        /\ (Arg.raw_footage = None /\ Arg.status # "Submitted")
             => sub.result = Ok
        /\ Arg.raw_footage # None
             => sub.result = IF UrlParses(Arg.raw_footage[1])
                             THEN Ok ELSE Err("MalformedRawUrl")

\* a record without raw footage was accepted with another status than Submitted
RawAbsentByModAccepted ==
    /\ Validated
    /\ EarlierRulesPass
    /\ Arg.raw_footage = None
    /\ Arg.status # "Submitted"
    /\ sub.result = Ok

----------------------------------------------------------------------------
(* create: the status of the row *)

\* create has inserted the row and not failed
InCreate == sub.pc \in {"create_status", "create_note", "create_score", "Persisted"}

\* the FullRecord create is building
Rec == Unwrap(sub.val)

\* the row of that record in the store
RecRows == { r \in records : r.id = Rec.id }

\* create has run its INSERT, whether it is still running, has returned the
\* record or has returned an error
RowInserted == \E i \in 1..Len(log) : log[i] = "create"

\* C11: the insert of create carries the requested status: from the INSERT on, the
\* record row is never in the store with a status other than the requested one,
\* so that no row with status Submitted shows for a record requested with
\* another status.
RowAlwaysHasRequestedStatus ==
    RowInserted => \A r \in RecRows : r.status = Rec.requested

----------------------------------------------------------------------------
(* create: set_status and the score *)

\* how often the call op was made on the submission
Calls(op) == Cardinality({ i \in 1..Len(log) : log[i] = op })

\* C12: create with a requested status S other than Submitted calls set_status(S)
\* exactly once, after the insert of the record, and recomputes the score of the
\* player before it returns; create with status Submitted does neither.
CreateFunnelsStatus ==
    /\ \A i \in 1..Len(log) :
         log[i] \in {"set_status", "update_score"}
            => /\ \E j \in 1..(i - 1) : log[j] = "create"
               /\ Rec.requested # "Submitted"
    /\ Calls("set_status") <= 1
    /\ sub.pc = "Persisted" =>
         IF Rec.requested # "Submitted"
         THEN /\ Calls("set_status") = 1
              /\ Calls("update_score") = 1
              /\ \A r \in RecRows : r.status = Rec.requested
         ELSE Calls("set_status") = 0 /\ Calls("update_score") = 0

\* create has returned a Rejected record after set_status and update_score
RejectedRecordCreated ==
    /\ sub.pc = "Persisted"
    /\ Rec.requested = "Rejected"
    /\ Calls("set_status") = 1
    /\ Calls("update_score") = 1

----------------------------------------------------------------------------
(* Failures *)

\* C13: normalize and validate write nothing: whenever one of them has returned
\* an error (as for an unknown demon id after the player name was resolved),
\* players, records, notes and demons are what they were when it was called.
NoWriteWhenStageFails ==
    (sub.pc = "Failed" /\ log \in {<<"normalize">>, <<"normalize", "validate">>})
      => Store = Unwrap(sub.entry)

\* C14: create is atomic: when a step of create after the insert of the record
\* fails, no record row and no note row written by that create remains in the
\* store, and the row is never in the store with only part of the effects of its
\* status applied.
CreateLeavesNothingOnFailure ==
    /\ (sub.pc = "Failed" /\ Calls("create") = 1)
         => /\ \A r \in records : r.id # Rec.id
            /\ \A n \in notes : n.record # Rec.id
    /\ (InCreate /\ Rec.requested # "Submitted" /\ RecRows # {})
         => /\ \A r \in RecRows : r.status = Rec.requested
            /\ Calls("update_score") = 1

----------------------------------------------------------------------------
(* Player resolution *)

SecondNormalized == sub.prev # None /\ log = <<"normalize", "normalize">>
First == Unwrap(sub.prev)
SameName == First.arg.player = Arg.player
PlayersNamed(name) == { p \in players : p.name = name }

\* C15: when two submissions with the same player name are normalized one after
\* the other, both calls yield the same player, the store holds exactly one
\* player with that name, and the second call creates no player.
IdempotentPlayerResolution ==
    (SecondNormalized /\ SameName)
      => /\ (First.result = Ok /\ sub.result = Ok)
              => /\ Unwrap(sub.val).player = Unwrap(First.val).player
                 /\ Cardinality(PlayersNamed(Arg.player)) = 1
                 /\ players = First.players
         /\ First.result # Err("MalformedVideoUrl")
              => /\ Cardinality(PlayersNamed(Arg.player)) = 1
                 /\ players = First.players

SamePlayerResolvedTwice ==
    /\ SecondNormalized
    /\ SameName
    /\ Arg.player = "bob"
    /\ Arg.demon # First.arg.demon
    /\ First.result = Ok
    /\ sub.result = Ok
    /\ Unwrap(sub.val).player.name = "bob"

----------------------------------------------------------------------------
(* Demon::score *)

Scored == calc.pc = "score"
ScoreResult == Unwrap(calc.result)

\* C16: for every position, requirement and progress, score returns exactly 0
\* whenever progress < requirement.
ScoreZeroBelowRequirement ==
    (Scored /\ calc.progress < calc.requirement) => ScoreResult = Zero

ScoredBelowRequirement ==
    /\ Scored
    /\ calc.progress = 49
    /\ calc.requirement = 50
    /\ calc.position = 1
    /\ ScoreResult = Zero

\* C17 as stated: for every requirement and every progress score can be called
\* with, the branch for progress != 100 never divides by 100 - requirement = 0,
\* and a demon with requirement 100 scores 0 for progress < 100.
ScoreNeverDividesByZero ==
    Scored => /\ ScoreResult.kind = "partial" => ScoreResult.denominator # 0
              /\ (calc.requirement = 100 /\ calc.progress < 100) => ScoreResult = Zero

\* C17 amended: for every requirement and every progress not above 100, the
\* branch for progress != 100 never divides by 100 - requirement = 0, and a
\* demon with requirement 100 scores 0 for progress < 100 by the early return.
ScoreNeverDividesByZeroUpTo100 ==
    (Scored /\ calc.progress <= 100)
      => /\ ScoreResult.kind = "partial" => ScoreResult.denominator # 0
         /\ (calc.requirement = 100 /\ calc.progress < 100) => ScoreResult = Zero

ScoredRequirement100 ==
    /\ Scored
    /\ calc.requirement = 100
    /\ calc.progress = 99
    /\ calc.position = 4
    /\ ScoreResult = Zero

----------------------------------------------------------------------------
(* Difficulty *)

Converted == calc.pc = "converted"
Conv == Unwrap(calc.result)
SqlTokens == {to_sql(d) : d \in Difficulty}

\* the parts of C19 that do not depend on the reading of "accepted": both round
\* trips give the difficulty back, the nine tokens are distinct and lower-case,
\* Display and to_sql give the same token
TokenRoundTrips ==
    /\ Conv.from_sql = calc.d
    /\ Conv.deserialize = DeOk(calc.d)
    /\ Conv.display = Conv.to_sql
    /\ to_lowercase(Conv.to_sql) = Conv.to_sql
    /\ \A e \in Difficulty : to_sql(e) = Conv.to_sql => e = calc.d
    /\ Cardinality(SqlTokens) = Cardinality(Difficulty)

\* C19 as stated: the token mapping is a bijection on the nine variants (round
\* trips through to_sql/from_sql and serialize/deserialize, tokens distinct and
\* lower-case, Display equal to to_sql) and deserializing a token that is not
\* one of the nine tokens fails.
TokenOutsideNineFails ==
    Converted => /\ TokenRoundTrips
                 /\ calc.token \notin SqlTokens
                      => Conv.token_deserialize = Err("invalid_value")

\* C19 amended: the token mapping is a bijection on the nine variants, and
\* deserializing a token fails exactly when its lower-case form is not one of
\* the nine tokens; otherwise it yields the difficulty of the lower-case form.
\* from_sql is case-sensitive: it panics on every token that is not one of the
\* nine.
TokenOutsideNineIgnoringCaseFails ==
    Converted => /\ TokenRoundTrips
                 /\ IF to_lowercase(calc.token) \in SqlTokens
                    THEN Conv.token_deserialize = DeOk(from_sql(to_lowercase(calc.token)))
                    ELSE Conv.token_deserialize = Err("invalid_value")
                 /\ IF calc.token \in SqlTokens
                    THEN to_sql(Conv.token_from_sql) = calc.token
                    ELSE Conv.token_from_sql = Panic(calc.token)

UpperCaseTokenAccepted ==
    /\ Converted
    /\ calc.token = "SILENT"
    /\ Conv.token_deserialize = DeOk("Silent")
    /\ Conv.token_from_sql = Panic("SILENT")
    /\ calc.d = "Hard"
    /\ Conv.to_sql = "hard"

----------------------------------------------------------------------------
(* Demon::shift_down *)

\* the demon of the store ds with the id of d
SameDemon(d, ds) == CHOOSE e \in ds : e.id = d.id

\* C20: shift_down(starting_at) adds one to the position of every demon whose
\* position is >= starting_at and changes nothing else: positions < starting_at,
\* the other fields of every demon and the number of demons stay; afterwards no
\* demon is at starting_at and the demons are in the same relative order.
ShiftDownEffect ==
    [][\A t \in Inserters :
         (ins[t].pc = "validated" /\ ins'[t].pc = "shifted")
           => LET starting_at == ins[t].position
              IN  /\ Cardinality(demons') = Cardinality(demons)
                  /\ {e.id : e \in demons'} = {d.id : d \in demons}
                  /\ \A d \in demons :
                       SameDemon(d, demons') =
                         [d EXCEPT !.position = IF d.position >= starting_at
                                                THEN d.position + 1
                                                ELSE d.position]
                  /\ \A e \in demons' : e.position # starting_at
                  /\ \A d1, d2 \in demons :
                       d1.position < d2.position
                         <=> SameDemon(d1, demons').position
                               < SameDemon(d2, demons').position]_vars

ShiftedInTheMiddle ==
    \E t \in Inserters :
      /\ ins[t].pc = "shifted"
      /\ ins[t].position = 2
      /\ \A u \in Inserters \ {t} : ins[u].pc = "idle"
      /\ {d.position : d \in demons} = {1, 3}

----------------------------------------------------------------------------
(* The ValidatedSubmission validate returns *)

\* validate has just returned Ok
ValidateReturnedOk == Validated /\ sub.pc = "Validated"
Val == Unwrap(sub.val)

\* C21: every ValidatedSubmission validate returns with status Submitted has a
\* player who is not banned, a demon position within the extended list, within
\* the main list unless progress is 100, a progress between the requirement
\* validate read and 100, an enjoyment that is absent or in 0..10 and a raw
\* footage; and its fields are those of the NormalizedSubmission it was built from.
ValidatedSubmittedMeetsRules ==
    (ValidateReturnedOk /\ Val.status = "Submitted")
      => /\ ~Val.player.banned
         /\ Val.demon.position <= extended_list_size
         /\ Val.demon.position <= list_size \/ Val.progress = 100
         /\ IsSome(sub.fetched)
         /\ Unwrap(sub.fetched) <= Val.progress
         /\ Val.progress <= 100
         /\ Val.enjoyment = None \/ Unwrap(Val.enjoyment) \in 0..10
         /\ IsSome(Val.raw_footage)
         /\ \A f \in {"progress", "video", "raw_footage", "status", "enjoyment",
                        "player", "demon", "note"} : Val[f] = Arg[f]

SubmittedPartialValidated ==
    /\ ValidateReturnedOk
    /\ Val.status = "Submitted"
    /\ Val.progress = 50
    /\ Val.enjoyment = Some(10)
    /\ Val.demon.position = 1
    /\ IsSome(Val.note)

----------------------------------------------------------------------------
(* The FullRecord create returns *)

\* the columns of the row that the FullRecord rec agrees with
RowAgreesExceptEnjoyment(row, rec) ==
    /\ row.progress = rec.progress
    /\ row.video = rec.video
    /\ row.raw_footage = rec.raw_footage
    /\ row.status = rec.status
    /\ row.player = rec.player.id
    /\ row.demon = rec.demon.id
    /\ Some(row.submitter) = rec.submitter

\* C22: when create has returned Ok(record), the store holds the row of that
\* record and every field of the record (progress, video, raw_footage, status,
\* enjoyment, player, demon, submitter) is the value stored in the row; an
\* enjoyment present in the record is stored with the row.
ReturnedRecordIsStoredRow ==
    sub.pc = "Persisted"
      => /\ Cardinality(RecRows) = 1
         /\ \A row \in RecRows :
              /\ RowAgreesExceptEnjoyment(row, Rec)
              /\ row.enjoyment = Rec.enjoyment

----------------------------------------------------------------------------
(* The tier rules when the demon moves *)

\* the position the demon with this id has in the store
StorePosition(id) == (CHOOSE d \in demons : d.id = id).position

\* C23: with demon inserts running next to the pipeline, whenever validate
\* accepts a submission with status Submitted, the position its demon has in the
\* store at that moment is within the extended list, and within the main list
\* unless progress is 100, also when an insert shifted the demon after normalize.
TierRulesOnStorePosition ==
    [][(sub.pc = "Normalized" /\ sub'.pc = "Validated"
          /\ Unwrap(sub'.val).status = "Submitted")
         => LET v == Unwrap(sub'.val)
                position == StorePosition(v.demon.id)
            IN  /\ position <= extended_list_size
                /\ position <= list_size \/ v.progress = 100]_vars

====
